---- MODULE Spec2Model ----
(***************************************************************************)
(* A model of the safe calculator (Python Projects/Calculator.py): the     *)
(* SafeEval evaluator, its operator, function and constant tables, and the *)
(* session (the repl's evaluator object, its eval and :clear requests).    *)
(*                                                                         *)
(* Numbers.  A Python int is an integer; a bool is an int tagged "bool"    *)
(* (0 or 1); a float is modelled as an exact rational n/d in lowest terms  *)
(* with d > 0.  A float result that is not rational (sin(1), sqrt(2), a    *)
(* fractional power) is the single value Irr, a float with d = 0.          *)
(***************************************************************************)
EXTENDS Integers, Sequences, FiniteSets, TLC

(***************************************************************************)
(* Values                                                                  *)
(***************************************************************************)
RECURSIVE Gcd(_, _)
Gcd(a, b) == IF b = 0 THEN a ELSE Gcd(b, a % b)

Abs(n) == IF n < 0 THEN -n ELSE n

IntV(n) == [t |-> "int", n |-> n, d |-> 1, elts |-> <<>>]

BoolV(b) == [t |-> "bool", n |-> IF b THEN 1 ELSE 0, d |-> 1, elts |-> <<>>]

\* the float n/d, d # 0, in lowest terms with a positive denominator
FloatV(n, d) ==
    LET s == IF d < 0 THEN -1 ELSE 1
        g == Gcd(Abs(n), Abs(d))
    IN  [t |-> "float", n |-> (s * n) \div g, d |-> (s * d) \div g, elts |-> <<>>]

Irr == [t |-> "float", n |-> 0, d |-> 0, elts |-> <<>>]

TupleV(s) == [t |-> "tuple", n |-> 0, d |-> 1, elts |-> s]

\* a string literal of the input (its text plays no part in evaluation)
StrV == [t |-> "str", n |-> 0, d |-> 1, elts |-> <<>>]

\* Python's None: the literal None in an input, and eval's "no result"
NoneV == [t |-> "None", n |-> 0, d |-> 1, elts |-> <<>>]

IsNum(v) == v.t \in {"int", "bool", "float"}

IsIrr(v) == v.t = "float" /\ v.d = 0

IsIntLike(v) == v.t \in {"int", "bool"}

\* the number n/d as an int when both operands were ints, as a float otherwise
NumV(a, b, n, d) ==
    IF a.t = "float" \/ b.t = "float" THEN FloatV(n, d) ELSE IntV(n \div d)

\* truth value of a value, as Python's `if v` / `not v`
Truthy(v) == IF v.t = "tuple" THEN Len(v.elts) > 0 ELSE IsIrr(v) \/ v.n # 0

(***************************************************************************)
(* Results: a value, or a raised exception (class, message, argument),     *)
(* with the log of what the evaluation did.                                *)
(***************************************************************************)
Ok(v) == [ok |-> TRUE, val |-> v, exc |-> "", msg |-> "", arg |-> "", log |-> <<>>]

Raise(exc, msg, arg) ==
    [ok |-> FALSE, val |-> NoneV, exc |-> exc, msg |-> msg, arg |-> arg, log |-> <<>>]

\* the result r with the events l put before its own
Logged(l, r) == [r EXCEPT !.log = l \o r.log]

(***************************************************************************)
(* Native arithmetic: the functions of the operator module behind _BIN_OPS *)
(* and _UNARY_OPS.                                                         *)
(***************************************************************************)
RECURSIVE IPow(_, _)
IPow(b, k) == IF k = 0 THEN 1 ELSE b * IPow(b, k - 1)

\* floor of n/d, d # 0
Floor(n, d) == IF d < 0 THEN (-n) \div (-d) ELSE n \div d

RECURSIVE Repeat(_, _)
Repeat(s, k) == IF k <= 0 THEN <<>> ELSE s \o Repeat(s, k - 1)

TypeErr(what) == Raise("TypeError", "unsupported operand type(s)", what)

ZeroDiv(what) == Raise("ZeroDivisionError", "division by zero", what)

op_add(a, b) ==
    IF IsNum(a) /\ IsNum(b)
    THEN IF IsIrr(a) \/ IsIrr(b) THEN Ok(Irr)
         ELSE Ok(NumV(a, b, a.n * b.d + b.n * a.d, a.d * b.d))
    ELSE IF a.t = "tuple" /\ b.t = "tuple" THEN Ok(TupleV(a.elts \o b.elts))
    ELSE TypeErr("+")

op_sub(a, b) ==
    IF IsNum(a) /\ IsNum(b)
    THEN IF IsIrr(a) \/ IsIrr(b) THEN Ok(Irr)
         ELSE Ok(NumV(a, b, a.n * b.d - b.n * a.d, a.d * b.d))
    ELSE TypeErr("-")

op_mul(a, b) ==
    IF IsNum(a) /\ IsNum(b)
    THEN IF IsIrr(a) \/ IsIrr(b) THEN Ok(Irr)
         ELSE Ok(NumV(a, b, a.n * b.n, a.d * b.d))
    ELSE IF a.t = "tuple" /\ IsIntLike(b) THEN Ok(TupleV(Repeat(a.elts, b.n)))
    ELSE IF IsIntLike(a) /\ b.t = "tuple" THEN Ok(TupleV(Repeat(b.elts, a.n)))
    ELSE TypeErr("*")

op_truediv(a, b) ==
    IF IsNum(a) /\ IsNum(b)
    THEN IF ~IsIrr(b) /\ b.n = 0 THEN ZeroDiv("/")
         ELSE IF IsIrr(a) \/ IsIrr(b) THEN Ok(Irr)
         ELSE Ok(FloatV(a.n * b.d, a.d * b.n))
    ELSE TypeErr("/")

op_floordiv(a, b) ==
    IF IsNum(a) /\ IsNum(b)
    THEN IF ~IsIrr(b) /\ b.n = 0 THEN ZeroDiv("//")
         ELSE IF IsIrr(a) \/ IsIrr(b) THEN Ok(Irr)
         ELSE Ok(NumV(a, b, Floor(a.n * b.d, a.d * b.n), 1))
    ELSE TypeErr("//")

op_mod(a, b) ==
    IF IsNum(a) /\ IsNum(b)
    THEN IF ~IsIrr(b) /\ b.n = 0 THEN ZeroDiv("%")
         ELSE IF IsIrr(a) \/ IsIrr(b) THEN Ok(Irr)
         ELSE LET q == Floor(a.n * b.d, a.d * b.n)
              IN  Ok(NumV(a, b, a.n * b.d - q * b.n * a.d, a.d * b.d))
    ELSE TypeErr("%")

op_pow(a, b) ==
    IF IsNum(a) /\ IsNum(b)
    THEN IF IsIrr(a) \/ IsIrr(b) THEN Ok(Irr)
         ELSE IF b.d = 1 /\ b.n >= 0
              THEN Ok(NumV(a, b, IPow(a.n, b.n), IPow(a.d, b.n)))
         ELSE IF a.n = 0 THEN ZeroDiv("**")
         ELSE IF b.d = 1
              THEN Ok(FloatV(IPow(a.d, -b.n), IPow(a.n, -b.n)))
         ELSE IF a.n = a.d THEN Ok(FloatV(1, 1))
         ELSE Ok(Irr)
    ELSE TypeErr("**")

op_pos(a) == IF IsNum(a) THEN (IF a.t = "bool" THEN Ok(IntV(a.n)) ELSE Ok(a))
             ELSE TypeErr("unary +")

op_neg(a) ==
    IF IsNum(a)
    THEN IF IsIrr(a) THEN Ok(Irr)
         ELSE IF a.t = "float" THEN Ok(FloatV(-a.n, a.d)) ELSE Ok(IntV(-a.n))
    ELSE TypeErr("unary -")

(***************************************************************************)
(* Native comparison: the functions behind _CMP_OPS.                       *)
(***************************************************************************)
RECURSIVE py_eq(_, _)
py_eq(a, b) ==
    IF IsNum(a) /\ IsNum(b)
    THEN IF IsIrr(a) \/ IsIrr(b) THEN IsIrr(a) /\ IsIrr(b)
         ELSE a.n * b.d = b.n * a.d
    ELSE IF a.t = "tuple" /\ b.t = "tuple"
    THEN /\ Len(a.elts) = Len(b.elts)
         /\ \A i \in 1..Len(a.elts) : py_eq(a.elts[i], b.elts[i])
    ELSE FALSE

\* the integer relation behind an ordering operator
Rel(o, x, y) ==
    CASE o = "Lt"  -> x < y
      [] o = "LtE" -> x <= y
      [] o = "Gt"  -> x > y
      [] o = "GtE" -> x >= y

\* a o b for an ordering operator o: numbers by value, tuples
\* lexicographically, anything else a TypeError
RECURSIVE py_order(_, _, _)
py_order(o, a, b) ==
    IF IsNum(a) /\ IsNum(b)
    THEN IF IsIrr(a) \/ IsIrr(b) THEN Ok(BoolV(FALSE))
         ELSE Ok(BoolV(Rel(o, a.n * b.d, b.n * a.d)))
    ELSE IF a.t = "tuple" /\ b.t = "tuple"
    THEN LET m    == IF Len(a.elts) < Len(b.elts) THEN Len(a.elts) ELSE Len(b.elts)
             diff == {i \in 1..m : ~py_eq(a.elts[i], b.elts[i])}
         IN  IF diff = {} THEN Ok(BoolV(Rel(o, Len(a.elts), Len(b.elts))))
             ELSE LET i == CHOOSE j \in diff : \A k \in diff : j <= k
                  IN  py_order(o, a.elts[i], b.elts[i])
    ELSE Raise("TypeError", "not supported between instances", o)

(***************************************************************************)
(* Native functions: the callables of _ALLOWED_FUNCS.  Each takes the      *)
(* list of evaluated positional arguments.                                 *)
(***************************************************************************)
ArgErr(f) == Raise("TypeError", "wrong number of arguments", f)

DomainErr(f) == Raise("ValueError", "math domain error", f)

NeedNum(f) == Raise("TypeError", "must be real number", f)

\* n/d (d > 0) rounded to the nearest integer, ties to the even one
RoundHalfEven(n, d) ==
    LET q == n \div d
        r == n % d
    IN  IF 2 * r < d THEN q
        ELSE IF 2 * r > d THEN q + 1
        ELSE IF q % 2 = 0 THEN q ELSE q + 1

IsSquare(n) == \E k \in 0..n : k * k = n

ISqrt(n) == CHOOSE k \in 0..n : k * k = n

py_abs(args) ==
    IF Len(args) # 1 THEN ArgErr("abs")
    ELSE LET x == args[1]
         IN  IF ~IsNum(x) THEN Raise("TypeError", "bad operand type", "abs")
             ELSE IF IsIrr(x) THEN Ok(Irr)
             ELSE IF x.t = "float" THEN Ok(FloatV(Abs(x.n), x.d))
             ELSE Ok(IntV(Abs(x.n)))

py_round(args) ==
    IF Len(args) \notin {1, 2} THEN ArgErr("round")
    ELSE LET x == args[1]
         IN  IF ~IsNum(x) THEN Raise("TypeError", "type doesn't define __round__", "round")
             ELSE IF Len(args) = 1
             THEN IF IsIrr(x) THEN Ok(Irr) ELSE Ok(IntV(RoundHalfEven(x.n, x.d)))
             ELSE LET k == args[2]
                  IN  IF ~IsIntLike(k)
                      THEN Raise("TypeError", "cannot be interpreted as an integer", "round")
                      ELSE IF IsIrr(x) THEN Ok(Irr)
                      ELSE IF k.n >= 0
                      THEN IF x.t = "float"
                           THEN Ok(FloatV(RoundHalfEven(x.n * IPow(10, k.n), x.d), IPow(10, k.n)))
                           ELSE Ok(IntV(x.n))
                      ELSE LET p == IPow(10, -k.n)
                               v == RoundHalfEven(x.n, x.d * p) * p
                           IN  IF x.t = "float" THEN Ok(FloatV(v, 1)) ELSE Ok(IntV(v))

math_sqrt(args) ==
    IF Len(args) # 1 THEN ArgErr("sqrt")
    ELSE LET x == args[1]
         IN  IF ~IsNum(x) THEN NeedNum("sqrt")
             ELSE IF IsIrr(x) THEN Ok(Irr)
             ELSE IF x.n < 0 THEN DomainErr("sqrt")
             ELSE IF IsSquare(x.n) /\ IsSquare(x.d)
                  THEN Ok(FloatV(ISqrt(x.n), ISqrt(x.d)))
             ELSE Ok(Irr)

\* sin, tan (value 0.0 at 0), cos and exp (value 1.0 at 0)
Transcendental(f, at0, args) ==
    IF Len(args) # 1 THEN ArgErr(f)
    ELSE LET x == args[1]
         IN  IF ~IsNum(x) THEN NeedNum(f)
             ELSE IF ~IsIrr(x) /\ x.n = 0 THEN Ok(FloatV(at0, 1))
             ELSE Ok(Irr)

math_log(args) ==
    IF Len(args) \notin {1, 2} THEN ArgErr("log")
    ELSE LET x == args[1]
         IN  IF ~IsNum(x) THEN NeedNum("log")
             ELSE IF ~IsIrr(x) /\ x.n <= 0 THEN DomainErr("log")
             ELSE IF Len(args) = 1
             THEN IF ~IsIrr(x) /\ x.n = x.d THEN Ok(FloatV(0, 1)) ELSE Ok(Irr)
             ELSE LET b == args[2]
                  IN  IF ~IsNum(b) THEN NeedNum("log")
                      ELSE IF ~IsIrr(b) /\ b.n <= 0 THEN DomainErr("log")
                      ELSE IF ~IsIrr(b) /\ b.n = b.d
                           THEN Raise("ZeroDivisionError", "float division by zero", "log")
                      ELSE IF IsIrr(x) \/ IsIrr(b) THEN Ok(Irr)
                      ELSE IF x.n = x.d THEN Ok(FloatV(0, 1))
                      ELSE IF py_eq(x, b) THEN Ok(FloatV(1, 1))
                      ELSE Ok(Irr)

math_log10(args) ==
    IF Len(args) # 1 THEN ArgErr("log10")
    ELSE LET x == args[1]
         IN  IF ~IsNum(x) THEN NeedNum("log10")
             ELSE IF IsIrr(x) THEN Ok(Irr)
             ELSE IF x.n <= 0 THEN DomainErr("log10")
             ELSE IF x.d = 1 /\ x.n \in {1, 10, 100}
                  THEN Ok(FloatV(CASE x.n = 1 -> 0 [] x.n = 10 -> 1 [] x.n = 100 -> 2, 1))
             ELSE Ok(Irr)

py_pow(args) ==
    IF Len(args) \notin {2, 3} THEN ArgErr("pow")
    ELSE IF Len(args) = 2 THEN op_pow(args[1], args[2])
    ELSE LET a == args[1]
             b == args[2]
             m == args[3]
         IN  IF ~(IsIntLike(a) /\ IsIntLike(b) /\ IsIntLike(m))
             THEN Raise("TypeError", "3rd argument not allowed unless all arguments are integers", "pow")
             ELSE IF m.n = 0 THEN Raise("ValueError", "pow() 3rd argument cannot be 0", "pow")
             ELSE IF b.n < 0 /\ Gcd(Abs(a.n), Abs(m.n)) # 1
                  THEN Raise("ValueError", "base is not invertible for the given modulus", "pow")
             ELSE LET base == IF b.n >= 0 THEN a.n
                              ELSE CHOOSE k \in 0..Abs(m.n) : (a.n * k - 1) % Abs(m.n) = 0
                      p    == IPow(base, Abs(b.n))
                  IN  Ok(IntV(p - m.n * Floor(p, m.n)))

\* the first greatest (o = "Gt") or least (o = "Lt") of items, from best on
RECURSIVE Extreme(_, _, _, _)
Extreme(o, items, i, best) ==
    IF i > Len(items) THEN Ok(best)
    ELSE LET r == py_order(o, items[i], best)
         IN  IF ~r.ok THEN r
             ELSE Extreme(o, items, i + 1, IF Truthy(r.val) THEN items[i] ELSE best)

py_extreme(f, o, args) ==
    IF Len(args) = 0 THEN ArgErr(f)
    ELSE IF Len(args) = 1 /\ args[1].t # "tuple"
         THEN Raise("TypeError", "object is not iterable", f)
    ELSE LET items == IF Len(args) = 1 THEN args[1].elts ELSE args
         IN  IF Len(items) = 0 THEN Raise("ValueError", "arg is an empty sequence", f)
             ELSE Extreme(o, items, 2, items[1])

(***************************************************************************)
(* Syntax trees, as ast.parse builds them.  Every node is a record of one  *)
(* shape: t the node class, v the literal of a Constant, id the identifier *)
(* of a Name, op / ops the operator class(es), kids the child expressions  *)
(* in source order, kw whether a Call has keyword arguments.               *)
(*   BinOp: kids = <<left, right>>        UnaryOp: kids = <<operand>>      *)
(*   Call: kids = <<func>> \o args        Compare: kids = <<left>> \o      *)
(*   BoolOp: kids = values                         comparators             *)
(*   IfExp: kids = <<test, body, orelse>> Tuple: kids = elts               *)
(***************************************************************************)
Node(t, v, id, op, ops, kids, kw) ==
    [t |-> t, v |-> v, id |-> id, op |-> op, ops |-> ops, kids |-> kids, kw |-> kw]

Constant(v) == Node("Constant", v, "", "", <<>>, <<>>, FALSE)

Name(id) == Node("Name", NoneV, id, "", <<>>, <<>>, FALSE)

BinOp(l, op, r) == Node("BinOp", NoneV, "", op, <<>>, <<l, r>>, FALSE)

UnaryOp(op, x) == Node("UnaryOp", NoneV, "", op, <<>>, <<x>>, FALSE)

Call(func, args) == Node("Call", NoneV, "", "", <<>>, <<func>> \o args, FALSE)

CallKw(func, args) == Node("Call", NoneV, "", "", <<>>, <<func>> \o args, TRUE)

Compare(left, ops, comparators) ==
    Node("Compare", NoneV, "", "", ops, <<left>> \o comparators, FALSE)

BoolOp(op, values) == Node("BoolOp", NoneV, "", op, <<>>, values, FALSE)

IfExp(test, body, orelse) == Node("IfExp", NoneV, "", "", <<>>, <<test, body, orelse>>, FALSE)

Tuple(elts) == Node("Tuple", NoneV, "", "", <<>>, elts, FALSE)

\* value.attr, value[index], [elts], {..}, lambda: node classes with no rule
Attribute(value, attr) == Node("Attribute", NoneV, attr, "", <<>>, <<value>>, FALSE)

Subscript(value, index) == Node("Subscript", NoneV, "", "", <<>>, <<value, index>>, FALSE)

List(elts) == Node("List", NoneV, "", "", <<>>, elts, FALSE)

\* statements: an expression statement, an assignment with its targets, or
\* a statement of another class (Import, For, ...), whose value is unused
Expr(value) == [t |-> "Expr", targets |-> <<>>, value |-> value]

Assign(targets, value) == [t |-> "Assign", targets |-> targets, value |-> value]

OtherStmt(t) == [t |-> t, targets |-> <<>>, value |-> Constant(NoneV)]

\* what ast.parse gives: a SyntaxError, or a Module with its body
Unparsable == [syntaxError |-> TRUE, body |-> <<>>]

Module(body) == [syntaxError |-> FALSE, body |-> body]

(***************************************************************************)
(* The tables                                                              *)
(***************************************************************************)
_BIN_OPS == {"Add", "Sub", "Mult", "Div", "FloorDiv", "Mod", "Pow"}

_UNARY_OPS == {"UAdd", "USub"}

_CMP_OPS == {"Eq", "NotEq", "Lt", "LtE", "Gt", "GtE"}

\* _BIN_OPS[op_type](left, right)
BinApply(o, a, b) ==
    CASE o = "Add"      -> op_add(a, b)
      [] o = "Sub"      -> op_sub(a, b)
      [] o = "Mult"     -> op_mul(a, b)
      [] o = "Div"      -> op_truediv(a, b)
      [] o = "FloorDiv" -> op_floordiv(a, b)
      [] o = "Mod"      -> op_mod(a, b)
      [] o = "Pow"      -> op_pow(a, b)

\* _UNARY_OPS[op_type](operand)
UnaryApply(o, a) == IF o = "UAdd" THEN op_pos(a) ELSE op_neg(a)

\* _CMP_OPS[op_type](left, right)
CmpApply(o, a, b) ==
    CASE o = "Eq"    -> Ok(BoolV(py_eq(a, b)))
      [] o = "NotEq" -> Ok(BoolV(~py_eq(a, b)))
      [] OTHER       -> py_order(o, a, b)

\* the module-level dict _ALLOWED_FUNCS as it is when the module is loaded:
\* name -> callable
InitFuncs ==
    [f \in {"abs", "round", "sqrt", "sin", "cos", "tan", "log", "log10",
            "exp", "pow", "max", "min"} |->
        CASE f = "abs"   -> "builtins.abs"
          [] f = "round" -> "builtins.round"
          [] f = "pow"   -> "builtins.pow"
          [] f = "max"   -> "builtins.max"
          [] f = "min"   -> "builtins.min"
          [] f = "sqrt"  -> "math.sqrt"
          [] f = "sin"   -> "math.sin"
          [] f = "cos"   -> "math.cos"
          [] f = "tan"   -> "math.tan"
          [] f = "log"   -> "math.log"
          [] f = "log10" -> "math.log10"
          [] f = "exp"   -> "math.exp"]

\* calling a callable of the host with positional arguments
NativeCall(c, args) ==
    CASE c = "builtins.abs"   -> py_abs(args)
      [] c = "builtins.round" -> py_round(args)
      [] c = "builtins.pow"   -> py_pow(args)
      [] c = "builtins.max"   -> py_extreme("max", "Gt", args)
      [] c = "builtins.min"   -> py_extreme("min", "Lt", args)
      [] c = "math.sqrt"      -> math_sqrt(args)
      [] c = "math.sin"       -> Transcendental("sin", 0, args)
      [] c = "math.tan"       -> Transcendental("tan", 0, args)
      [] c = "math.cos"       -> Transcendental("cos", 1, args)
      [] c = "math.exp"       -> Transcendental("exp", 1, args)
      [] c = "math.log"       -> math_log(args)
      [] c = "math.log10"     -> math_log10(args)

\* the module-level dict _ALLOWED_CONSTS as it is when the module is loaded
\* (math.pi, math.e, math.tau to three decimals)
InitConsts ==
    [c \in {"pi", "e", "tau"} |->
        CASE c = "pi"  -> FloatV(3142, 1000)
          [] c = "e"   -> FloatV(2718, 1000)
          [] c = "tau" -> FloatV(6283, 1000)]

(***************************************************************************)
(* State                                                                   *)
(***************************************************************************)
VARIABLES
    vars,            \* evaluator.vars of the session's SafeEval
    _ALLOWED_CONSTS, \* the module-level constant table
    _ALLOWED_FUNCS,  \* the module-level function table
    before,          \* evaluator.vars as the last request found it
    request,         \* the last request: a parsed input, or :clear
    result,          \* what the last eval returned or raised, with its log
    history,         \* the session's bind events and :clear requests, oldest first
    calls            \* number of requests so far

state == <<vars, _ALLOWED_CONSTS, _ALLOWED_FUNCS, before, request, result, history, calls>>

(***************************************************************************)
(* The log of an evaluation: one event per step that the claims observe.   *)
(*   enter   _eval_expr was called on the node at path (name: its class)   *)
(*   vars    self.vars was looked up for name                              *)
(*   consts  _ALLOWED_CONSTS was looked up for name                        *)
(*   funcs   _ALLOWED_FUNCS was looked up for name                         *)
(*   invoke  the callable name was called                                  *)
(*   bind    self.vars[name] = val was done (path: the statement)          *)
(* A path is <<statement index, child index, child index, ...>>.           *)
(***************************************************************************)
Ev(k, name, path) == [k |-> k, name |-> name, path |-> path, val |-> NoneV]

\* the bind event, with the value assigned
EvBind(name, path, value) == [k |-> "bind", name |-> name, path |-> path, val |-> value]

ValueErr(msg, arg) == Raise("ValueError", msg, arg)

(***************************************************************************)
(* SafeEval._eval_expr                                                     *)
(***************************************************************************)
RECURSIVE _eval_expr(_, _, _)
RECURSIVE EvalEach(_, _, _, _, _)
RECURSIVE CompareChain(_, _, _, _, _)
RECURSIVE BoolAnd(_, _, _, _)
RECURSIVE BoolOr(_, _, _, _)

\* [self._eval_expr(k) for k in kids[i..]], appended to the values got so
\* far: the list of values (as a tuple value), or the first failure
EvalEach(kids, i, got, env, path) ==
    IF i > Len(kids) THEN Ok(TupleV(got))
    ELSE LET r == _eval_expr(kids[i], env, path \o <<i>>)
         IN  IF ~r.ok THEN r
             ELSE Logged(r.log, EvalEach(kids, i + 1, Append(got, r.val), env, path))

\* CompareChain without the break: a failed link sets result = False and
\* the loop goes on to the next comparator
RECURSIVE CompareChain_NoBreak(_, _, _, _, _)
CompareChain_NoBreak(node, i, left, env, path) ==
    LET n == IF Len(node.ops) < Len(node.kids) - 1 THEN Len(node.ops)
             ELSE Len(node.kids) - 1
    IN  IF i > n THEN Ok(BoolV(TRUE))
        ELSE LET r == _eval_expr(node.kids[i + 1], env, path \o <<i + 1>>)
             IN  IF ~r.ok THEN r
                 ELSE IF node.ops[i] \notin _CMP_OPS
                      THEN Logged(r.log, ValueErr("Comparison operator not allowed.", ""))
                 ELSE LET c    == CmpApply(node.ops[i], left, r.val)
                          rest == CompareChain_NoBreak(node, i + 1, r.val, env, path)
                      IN  IF ~c.ok THEN Logged(r.log, c)
                          ELSE IF ~rest.ok \/ Truthy(c.val) THEN Logged(r.log, rest)
                          ELSE Logged(r.log \o rest.log, Ok(BoolV(FALSE)))

\* the loop of the chained comparison from link i on, current_left = left
CompareChain(node, i, left, env, path) ==
    LET n == IF Len(node.ops) < Len(node.kids) - 1 THEN Len(node.ops)
             ELSE Len(node.kids) - 1
    IN  IF i > n THEN Ok(BoolV(TRUE))
        ELSE LET r == _eval_expr(node.kids[i + 1], env, path \o <<i + 1>>)
             IN  IF ~r.ok THEN r
                 ELSE IF node.ops[i] \notin _CMP_OPS
                      THEN Logged(r.log, ValueErr("Comparison operator not allowed.", ""))
                 ELSE LET c == CmpApply(node.ops[i], left, r.val)
                      IN  IF ~c.ok THEN Logged(r.log, c)
                          ELSE IF ~Truthy(c.val) THEN Logged(r.log, Ok(BoolV(FALSE)))
                          ELSE Logged(r.log, CompareChain(node, i + 1, r.val, env, path))

\* for v in node.values: if not self._eval_expr(v): return False
BoolAnd(kids, i, env, path) ==
    IF i > Len(kids) THEN Ok(BoolV(TRUE))
    ELSE LET r == _eval_expr(kids[i], env, path \o <<i>>)
         IN  IF ~r.ok THEN r
             ELSE IF ~Truthy(r.val) THEN Logged(r.log, Ok(BoolV(FALSE)))
             ELSE Logged(r.log, BoolAnd(kids, i + 1, env, path))

\* BoolOr returning the truthy operand itself, as Python's own `or` does
RECURSIVE BoolOr_OperandValue(_, _, _, _)
BoolOr_OperandValue(kids, i, env, path) ==
    IF i > Len(kids) THEN Ok(BoolV(FALSE))
    ELSE LET r == _eval_expr(kids[i], env, path \o <<i>>)
         IN  IF ~r.ok \/ Truthy(r.val) THEN r
             ELSE Logged(r.log, BoolOr_OperandValue(kids, i + 1, env, path))

\* for v in node.values: if self._eval_expr(v): return True
BoolOr(kids, i, env, path) ==
    IF i > Len(kids) THEN Ok(BoolV(FALSE))
    ELSE LET r == _eval_expr(kids[i], env, path \o <<i>>)
         IN  IF ~r.ok THEN r
             ELSE IF Truthy(r.val) THEN Logged(r.log, Ok(BoolV(TRUE)))
             ELSE Logged(r.log, BoolOr(kids, i + 1, env, path))

EvalConstant(node) ==
    IF node.v.t \in {"int", "float", "bool"} THEN Ok(node.v)
    ELSE ValueErr("Only numeric and boolean constants are allowed.", "")

\* EvalName with the constant table looked up before self.vars
EvalName_ConstsFirst(node, env, path) ==
    IF node.id \in DOMAIN _ALLOWED_CONSTS
    THEN Logged(<<Ev("consts", node.id, path)>>, Ok(_ALLOWED_CONSTS[node.id]))
    ELSE IF node.id \in DOMAIN env
    THEN Logged(<<Ev("consts", node.id, path), Ev("vars", node.id, path)>>,
                Ok(env[node.id]))
    ELSE Logged(<<Ev("consts", node.id, path), Ev("vars", node.id, path)>>,
                ValueErr("Unknown variable or constant: ", node.id))

EvalName(node, env, path) ==
    IF node.id \in DOMAIN env
    THEN Logged(<<Ev("vars", node.id, path)>>, Ok(env[node.id]))
    ELSE IF node.id \in DOMAIN _ALLOWED_CONSTS
    THEN Logged(<<Ev("vars", node.id, path), Ev("consts", node.id, path)>>,
                Ok(_ALLOWED_CONSTS[node.id]))
    ELSE Logged(<<Ev("vars", node.id, path), Ev("consts", node.id, path)>>,
                ValueErr("Unknown variable or constant: ", node.id))

EvalBinOp(node, env, path) ==
    LET left == _eval_expr(node.kids[1], env, path \o <<1>>)
    IN  IF ~left.ok THEN left
        ELSE LET right == _eval_expr(node.kids[2], env, path \o <<2>>)
             IN  IF ~right.ok THEN Logged(left.log, right)
                 ELSE Logged(left.log \o right.log,
                        IF node.op \in _BIN_OPS
                        THEN BinApply(node.op, left.val, right.val)
                        ELSE ValueErr("Operator not allowed: ", node.op))

EvalUnaryOp(node, env, path) ==
    LET operand == _eval_expr(node.kids[1], env, path \o <<1>>)
    IN  IF ~operand.ok THEN operand
        ELSE Logged(operand.log,
               IF node.op \in _UNARY_OPS THEN UnaryApply(node.op, operand.val)
               ELSE ValueErr("Unary operator not allowed: ", node.op))

\* EvalCall with the callee looked up in self.vars first, as a variable
\* reference is: a bound name is no function
EvalCall_VarsFirst(node, env, path) ==
    LET func == node.kids[1]
    IN  IF func.t # "Name" THEN ValueErr("Only direct function calls are allowed.", "")
        ELSE IF func.id \in DOMAIN env
        THEN Logged(<<Ev("vars", func.id, path)>>,
                    Raise("TypeError", "object is not callable", func.id))
        ELSE IF func.id \notin DOMAIN _ALLOWED_FUNCS
        THEN Logged(<<Ev("funcs", func.id, path)>>,
                    ValueErr("Function not allowed: ", func.id))
        ELSE LET args == EvalEach(node.kids, 2, <<>>, env, path)
                 l    == <<Ev("funcs", func.id, path)>> \o args.log
             IN  IF ~args.ok THEN Logged(<<Ev("funcs", func.id, path)>>, args)
                 ELSE IF node.kw
                      THEN Logged(l, ValueErr("Keyword arguments are not allowed.", ""))
                 ELSE Logged(l \o <<Ev("funcs", func.id, path),
                                    Ev("invoke", _ALLOWED_FUNCS[func.id], path)>>,
                             NativeCall(_ALLOWED_FUNCS[func.id], args.val.elts))

\* EvalCall with the arguments evaluated before the callee is checked
EvalCall_ArgsFirst(node, env, path) ==
    LET func == node.kids[1]
        args == EvalEach(node.kids, 2, <<>>, env, path)
    IN  IF ~args.ok THEN args
        ELSE IF func.t # "Name"
        THEN Logged(args.log, ValueErr("Only direct function calls are allowed.", ""))
        ELSE IF func.id \notin DOMAIN _ALLOWED_FUNCS
        THEN Logged(args.log \o <<Ev("funcs", func.id, path)>>,
                    ValueErr("Function not allowed: ", func.id))
        ELSE IF node.kw
        THEN Logged(args.log, ValueErr("Keyword arguments are not allowed.", ""))
        ELSE Logged(args.log \o <<Ev("funcs", func.id, path),
                                  Ev("invoke", _ALLOWED_FUNCS[func.id], path)>>,
                    NativeCall(_ALLOWED_FUNCS[func.id], args.val.elts))

EvalCall(node, env, path) ==
    LET func == node.kids[1]
    IN  IF func.t # "Name" THEN ValueErr("Only direct function calls are allowed.", "")
        ELSE IF func.id \notin DOMAIN _ALLOWED_FUNCS
        THEN Logged(<<Ev("funcs", func.id, path)>>,
                    ValueErr("Function not allowed: ", func.id))
        ELSE LET args == EvalEach(node.kids, 2, <<>>, env, path)
                 l    == <<Ev("funcs", func.id, path)>> \o args.log
             IN  IF ~args.ok THEN Logged(<<Ev("funcs", func.id, path)>>, args)
                 ELSE IF node.kw
                      THEN Logged(l, ValueErr("Keyword arguments are not allowed.", ""))
                 ELSE Logged(l \o <<Ev("funcs", func.id, path),
                                    Ev("invoke", _ALLOWED_FUNCS[func.id], path)>>,
                             NativeCall(_ALLOWED_FUNCS[func.id], args.val.elts))

EvalCompare(node, env, path) ==
    LET left == _eval_expr(node.kids[1], env, path \o <<1>>)
    IN  IF ~left.ok THEN left
        ELSE IF Len(node.ops) # 1 \/ Len(node.kids) - 1 # 1
        THEN Logged(left.log, CompareChain(node, 1, left.val, env, path))
        ELSE LET right == _eval_expr(node.kids[2], env, path \o <<2>>)
             IN  IF ~right.ok THEN Logged(left.log, right)
                 ELSE Logged(left.log \o right.log,
                        IF node.ops[1] \in _CMP_OPS
                        THEN CmpApply(node.ops[1], left.val, right.val)
                        ELSE ValueErr("Comparison operator not allowed.", ""))

EvalBoolOp(node, env, path) ==
    IF node.op = "And" THEN BoolAnd(node.kids, 1, env, path)
    ELSE IF node.op = "Or" THEN BoolOr(node.kids, 1, env, path)
    ELSE ValueErr("Boolean operator not allowed.", "")

EvalIfExp(node, env, path) ==
    LET test == _eval_expr(node.kids[1], env, path \o <<1>>)
    IN  IF ~test.ok THEN test
        ELSE IF Truthy(test.val)
        THEN Logged(test.log, _eval_expr(node.kids[2], env, path \o <<2>>))
        ELSE Logged(test.log, _eval_expr(node.kids[3], env, path \o <<3>>))

_eval_expr(node, env, path) ==
    Logged(<<Ev("enter", node.t, path)>>,
      CASE node.t = "Constant" -> EvalConstant(node)
        [] node.t = "Name"     -> EvalName(node, env, path)
        [] node.t = "BinOp"    -> EvalBinOp(node, env, path)
        [] node.t = "UnaryOp"  -> EvalUnaryOp(node, env, path)
        [] node.t = "Call"     -> EvalCall(node, env, path)
        [] node.t = "Compare"  -> EvalCompare(node, env, path)
        [] node.t = "BoolOp"   -> EvalBoolOp(node, env, path)
        [] node.t = "IfExp"    -> EvalIfExp(node, env, path)
        [] node.t = "Tuple"    -> EvalEach(node.kids, 1, <<>>, env, path)
        [] OTHER               -> ValueErr("Unsupported expression: ", node.t))

(***************************************************************************)
(* SafeEval.eval: the result of _eval_expr's shape, with the evaluator's   *)
(* vars as the call leaves them.                                           *)
(***************************************************************************)
Leaving(r, env) ==
    [ok |-> r.ok, val |-> r.val, exc |-> r.exc, msg |-> r.msg, arg |-> r.arg,
     log |-> r.log, vars |-> env]

\* self.vars[name] = value
Bind(env, name, value) ==
    [n \in DOMAIN env \cup {name} |-> IF n = name THEN value ELSE env[n]]

\* EvalBody with `last_value = value` left out of the assignment branch
RECURSIVE EvalBody_KeepLast(_, _, _, _)
EvalBody_KeepLast(body, i, last_value, env) ==
    IF i > Len(body) THEN Leaving(Ok(last_value), env)
    ELSE LET node == body[i]
         IN  IF node.t = "Assign"
             THEN IF Len(node.targets) # 1
                  THEN Leaving(ValueErr("Only single-target assignment is allowed.", ""), env)
                  ELSE IF node.targets[1].t # "Name"
                  THEN Leaving(ValueErr("Can only assign to variable names.", ""), env)
                  ELSE LET value == _eval_expr(node.value, env, <<i>>)
                       IN  IF ~value.ok THEN Leaving(value, env)
                           ELSE LET rest == EvalBody_KeepLast(body, i + 1, last_value,
                                              Bind(env, node.targets[1].id, value.val))
                                IN  Leaving(Logged(value.log \o
                                                <<EvBind(node.targets[1].id, <<i>>, value.val)>>,
                                                rest), rest.vars)
             ELSE IF node.t = "Expr"
             THEN LET value == _eval_expr(node.value, env, <<i>>)
                  IN  IF ~value.ok THEN Leaving(value, env)
                      ELSE LET rest == EvalBody_KeepLast(body, i + 1, value.val, env)
                           IN  Leaving(Logged(value.log, rest), rest.vars)
             ELSE Leaving(ValueErr("Only expressions and simple assignments are allowed.",
                                   ""), env)

\* the loop over tree.body from statement i on
RECURSIVE EvalBody(_, _, _, _)
EvalBody(body, i, last_value, env) ==
    IF i > Len(body) THEN Leaving(Ok(last_value), env)
    ELSE LET node == body[i]
         IN  IF node.t = "Assign"
             THEN IF Len(node.targets) # 1
                  THEN Leaving(ValueErr("Only single-target assignment is allowed.", ""), env)
                  ELSE IF node.targets[1].t # "Name"
                  THEN Leaving(ValueErr("Can only assign to variable names.", ""), env)
                  ELSE LET value == _eval_expr(node.value, env, <<i>>)
                       IN  IF ~value.ok THEN Leaving(value, env)
                           ELSE LET rest == EvalBody(body, i + 1, value.val,
                                              Bind(env, node.targets[1].id, value.val))
                                IN  Leaving(Logged(value.log \o
                                                <<EvBind(node.targets[1].id, <<i>>, value.val)>>,
                                                rest), rest.vars)
             ELSE IF node.t = "Expr"
             THEN LET value == _eval_expr(node.value, env, <<i>>)
                  IN  IF ~value.ok THEN Leaving(value, env)
                      ELSE LET rest == EvalBody(body, i + 1, value.val, env)
                           IN  Leaving(Logged(value.log, rest), rest.vars)
             ELSE Leaving(ValueErr("Only expressions and simple assignments are allowed.",
                                   ""), env)

\* SafeEval.eval undoing the call's assignments when a statement fails
SafeEval_eval_Rollback(tree, env) ==
    IF tree.syntaxError THEN Leaving(ValueErr("Syntax error: ", ""), env)
    ELSE IF Len(tree.body) = 0 THEN Leaving(Ok(NoneV), env)
    ELSE IF Len(tree.body) = 1 /\ tree.body[1].t = "Expr"
    THEN Leaving(_eval_expr(tree.body[1].value, env, <<1>>), env)
    ELSE LET r == EvalBody(tree.body, 1, NoneV, env)
         IN  IF r.ok THEN r ELSE Leaving(r, env)

\* SafeEval.eval keeping the value of a single expression in the variable _
SafeEval_eval_StoreLast(tree, env) ==
    IF tree.syntaxError THEN Leaving(ValueErr("Syntax error: ", ""), env)
    ELSE IF Len(tree.body) = 0 THEN Leaving(Ok(NoneV), env)
    ELSE IF Len(tree.body) = 1 /\ tree.body[1].t = "Expr"
    THEN LET r == _eval_expr(tree.body[1].value, env, <<1>>)
         IN  Leaving(r, IF r.ok THEN Bind(env, "_", r.val) ELSE env)
    ELSE EvalBody(tree.body, 1, NoneV, env)

SafeEval_eval(tree, env) ==
    IF tree.syntaxError THEN Leaving(ValueErr("Syntax error: ", ""), env)
    ELSE IF Len(tree.body) = 0 THEN Leaving(Ok(NoneV), env)
    ELSE IF Len(tree.body) = 1 /\ tree.body[1].t = "Expr"
    THEN Leaving(_eval_expr(tree.body[1].value, env, <<1>>), env)
    ELSE EvalBody(tree.body, 1, NoneV, env)

(***************************************************************************)
(* Inputs                                                                  *)
(***************************************************************************)
MaxCalls == 3

I(n) == Constant(IntV(n))

\* -n, as the parser gives it
Neg(n) == UnaryOp("USub", I(n))

Str == Constant(StrV)

\* a name that is never assigned and is no constant
zzz == Name("zzz")

\* all sequences over S of length 0..n
RECURSIVE SeqsUpTo(_, _)
SeqsUpTo(S, n) ==
    IF n = 0 THEN {<<>>}
    ELSE LET shorter == SeqsUpTo(S, n - 1)
         IN  shorter \cup {Append(q, x) : q \in shorter, x \in S}

\* the inputs of the session: single statements and short sequences
SessionBodies ==
    { <<>>,
      <<Assign(<<Name("x")>>, I(1))>>,                                 \* x = 1
      <<Assign(<<Name("y")>>, Name("x"))>>,                            \* y = x
      <<Assign(<<Name("pi")>>, I(0))>>,                                \* pi = 0
      <<Assign(<<Name("e")>>, Name("tau"))>>,                          \* e = tau
      <<Assign(<<Name("sqrt")>>, I(5))>>,                              \* sqrt = 5
      <<Assign(<<Name("x"), Name("y")>>, I(2))>>,                      \* x = y = 2
      <<Assign(<<Tuple(<<Name("x"), Name("y")>>)>>,
               Tuple(<<I(1), I(2)>>))>>,                               \* x, y = 1, 2
      <<Assign(<<Name("x")>>, Call(Name("open"), <<Str>>))>>,          \* x = open('s')
      <<Assign(<<Name("y")>>, BinOp(I(1), "FloorDiv", I(0)))>>,        \* y = 1 // 0
      <<OtherStmt("Import")>>,                                         \* import os
      <<Expr(Name("pi"))>>,                                            \* pi
      <<Expr(Name("e"))>>,                                             \* e
      <<Expr(Name("y"))>>,                                             \* y
      <<Expr(zzz)>>,                                                   \* zzz
      <<Expr(BinOp(Name("x"), "Mult", I(2)))>>,                        \* x * 2
      <<Expr(Call(Name("sqrt"), <<I(4)>>))>>,                          \* sqrt(4)
      <<Expr(Call(Name("x"), <<zzz>>))>>,                              \* x(zzz)
      <<Expr(BoolOp("And", <<I(0), Str>>))>>,                          \* 0 and 's'
      <<Expr(Compare(Name("x"), <<"Lt", "Lt">>, <<Name("y"), zzz>>))>>,\* x < y < zzz
      <<Assign(<<Name("x")>>, I(1)),
        Expr(BinOp(Name("x"), "Add", I(1)))>>,                         \* x = 1; x + 1
      <<Assign(<<Name("pi")>>, I(0)), Expr(Name("pi"))>>,              \* pi = 0; pi
      <<Assign(<<Name("x")>>, I(5)), Assign(<<Name("x")>>, I(1)),
        Assign(<<Name("y")>>, Name("x"))>>,                            \* x = 5; x = 1; y = x
      <<Assign(<<Name("y")>>, I(3)), Expr(zzz)>>,                      \* y = 3; zzz
      <<Assign(<<Name("x")>>, I(1)), OtherStmt("Import")>>,            \* x = 1; import os
      <<Expr(Name("pi")), Expr(Name("x"))>>                            \* pi; x
    }

SessionInputs == {Unparsable} \cup {Module(b) : b \in SessionBodies}

(***************************************************************************)
(* The session: the repl's evaluator, its eval requests and :clear.        *)
(***************************************************************************)
EmptyVars == [n \in {} |-> NoneV]

NoResult == Leaving(Ok(NoneV), EmptyVars)

Init ==
    /\ vars = EmptyVars
    /\ _ALLOWED_CONSTS = InitConsts
    /\ _ALLOWED_FUNCS = InitFuncs
    /\ before = EmptyVars
    /\ request = [kind |-> "start", tree |-> Module(<<>>)]
    /\ result = NoResult
    /\ history = <<>>
    /\ calls = 0

\* the bind events of a log, in order
Binds(log) == SelectSeq(log, LAMBDA ev : ev.k = "bind")

\* result = evaluator.eval(line), for a line that parses to a tree of S
EvalRequest(S) ==
    /\ calls < MaxCalls
    /\ \E tree \in S :
          LET r == SafeEval_eval(tree, vars)
          IN  /\ vars' = r.vars
              /\ before' = vars
              /\ request' = [kind |-> "eval", tree |-> tree]
              /\ result' = r
              /\ history' = history \o Binds(r.log)
    /\ calls' = calls + 1
    /\ UNCHANGED <<_ALLOWED_CONSTS, _ALLOWED_FUNCS>>

Eval == EvalRequest(SessionInputs)

\* the :clear command: evaluator.vars.clear()
Clear ==
    /\ calls < MaxCalls
    /\ vars' = EmptyVars
    /\ before' = vars
    /\ request' = [kind |-> "clear", tree |-> Module(<<>>)]
    /\ result' = NoResult
    /\ history' = Append(history, Ev("clear", "", <<>>))
    /\ calls' = calls + 1
    /\ UNCHANGED <<_ALLOWED_CONSTS, _ALLOWED_FUNCS>>

Next == Eval \/ Clear

Spec == Init /\ [][Next]_state

(***************************************************************************)
(* One call: an input evaluated once in a session with some bindings.      *)
(* The inputs are single expressions of every node class and statement     *)
(* sequences of up to MaxStmts statements.                                 *)
(***************************************************************************)
MaxStmts == 3

vx == Name("x")

CmpAtoms == {I(1), I(2), vx, zzz}

CmpOpsUsed == {"Lt", "Eq", "GtE"}

\* e0 op1 e1 and e0 op1 e1 op2 e2 over the atoms, and some longer or odd ones
Comparisons ==
    {Compare(a, <<o>>, <<b>>) : a \in CmpAtoms, b \in CmpAtoms, o \in CmpOpsUsed}
    \cup
    {Compare(a, <<o1, o2>>, <<b, c>>) :
        a \in CmpAtoms, b \in CmpAtoms, c \in CmpAtoms,
        o1 \in CmpOpsUsed, o2 \in CmpOpsUsed}
    \cup
    { Compare(I(1), <<"Lt", "Lt", "Lt">>, <<I(2), I(3), zzz>>),       \* 1 < 2 < 3 < zzz
      Compare(I(1), <<"Lt", "Lt", "Lt">>, <<I(2), I(1), zzz>>),       \* 1 < 2 < 1 < zzz
      Compare(I(1), <<"LtE", "NotEq", "Gt">>, <<I(1), I(2), I(1)>>),  \* 1 <= 1 != 2 > 1
      Compare(I(1), <<"Lt", "Lt">>, <<I(0), Str>>),                   \* 1 < 0 < 's'
      Compare(I(1), <<"Lt", "Lt">>, <<I(2), Str>>),                   \* 1 < 2 < 's'
      Compare(I(1), <<"Lt">>, <<Tuple(<<I(1)>>)>>),                   \* 1 < (1,)
      Compare(I(1), <<"Eq">>, <<Tuple(<<I(1)>>)>>),                   \* 1 == (1,)
      Compare(Tuple(<<I(1), I(2)>>), <<"Lt">>, <<Tuple(<<I(1), I(3)>>)>>),
      Compare(vx, <<"Lt", "Lt">>, <<Tuple(<<I(1)>>), zzz>>),           \* x < (1,) < zzz
      Compare(I(1), <<"In">>, <<I(2)>>),                              \* 1 in 2
      Compare(I(1), <<"Lt", "In">>, <<I(2), I(3)>>),                  \* 1 < 2 in 3
      Compare(I(2), <<"Lt", "In">>, <<I(1), I(3)>>) }                 \* 2 < 1 in 3

BoolAtoms == {I(0), I(5), vx, zzz, Str}

\* a and b, a or b, a and b and c, a or b or c over the atoms
BoolOps ==
    {BoolOp(o, <<a, b>>) : o \in {"And", "Or"}, a \in BoolAtoms, b \in BoolAtoms}
    \cup
    {BoolOp(o, <<a, b, c>>) :
        o \in {"And", "Or"}, a \in BoolAtoms, b \in BoolAtoms, c \in BoolAtoms}
    \cup
    { BoolOp("And", <<Tuple(<<>>), zzz>>),                            \* () and zzz
      BoolOp("Or", <<Tuple(<<I(0)>>), zzz>>),                         \* (0,) or zzz
      BoolOp("Or", <<I(0), BoolOp("And", <<I(5), Attribute(vx, "real")>>)>>) }

Arithmetic ==
    {BinOp(a, o, b) : a \in {I(7), Neg(7), vx}, b \in {I(2), I(0), Neg(1)}, o \in _BIN_OPS}
    \cup
    { BinOp(Tuple(<<I(1), I(2)>>), "Add", Tuple(<<I(3)>>)),  \* (1, 2) + (3,)
      BinOp(Tuple(<<I(1)>>), "Mult", I(2)),                  \* (1,) * 2
      BinOp(Tuple(<<I(1)>>), "Sub", I(1)),                   \* (1,) - 1
      BinOp(I(1), "MatMult", I(2)),                          \* 1 @ 2
      BinOp(zzz, "BitOr", I(2)),                             \* zzz | 2
      BinOp(I(1), "Add", Str),                               \* 1 + 's'
      BinOp(BinOp(I(1), "Div", I(2)), "Add", I(1)),          \* 1 / 2 + 1
      UnaryOp("USub", vx),                                    \* -x
      UnaryOp("UAdd", Constant(BoolV(TRUE))),                \* +True
      UnaryOp("Not", I(1)),                                  \* not 1
      UnaryOp("USub", Tuple(<<I(1)>>)) }                     \* -(1,)

Names == {vx, zzz, Name("pi"), Name("e"), Name("tau"), Name("sqrt")}

Calls ==
    {Call(Name(f), <<a>>) :
        f \in DOMAIN InitFuncs \cup {"open", "x", "pi"},
        a \in {I(4), I(0), Neg(1), vx, zzz, Str}}
    \cup
    { Call(Name("sqrt"), <<>>),                                       \* sqrt()
      Call(Name("max"), <<I(1), I(5), I(3)>>),                        \* max(1, 5, 3)
      Call(Name("min"), <<I(1), I(5), I(3)>>),                        \* min(1, 5, 3)
      Call(Name("max"), <<Tuple(<<I(1), I(2)>>)>>),                   \* max((1, 2))
      Call(Name("max"), <<I(1), Tuple(<<I(2)>>)>>),                   \* max(1, (2,))
      Call(Name("max"), <<I(1), Call(Name("open"), <<zzz>>)>>),       \* max(1, open(zzz))
      Call(Name("round"), <<BinOp(I(5), "Div", I(2))>>),              \* round(5 / 2)
      Call(Name("round"), <<BinOp(I(7), "Div", I(2))>>),              \* round(7 / 2)
      Call(Name("round"), <<BinOp(I(1), "Div", I(3)), I(2)>>),        \* round(1 / 3, 2)
      Call(Name("pow"), <<I(2), I(3)>>),                              \* pow(2, 3)
      Call(Name("pow"), <<I(2), I(3), I(5)>>),                        \* pow(2, 3, 5)
      Call(Name("pow"), <<I(2), Neg(1), I(5)>>),                       \* pow(2, -1, 5)
      Call(Name("log"), <<I(1)>>),                                    \* log(1)
      Call(Name("log"), <<I(8), I(1)>>),                              \* log(8, 1)
      Call(Name("log10"), <<I(100)>>),                                \* log10(100)
      CallKw(Name("sqrt"), <<I(4)>>),                                 \* sqrt(4, k=1)
      CallKw(Name("open"), <<zzz>>),                                  \* open(zzz, k=1)
      Call(Attribute(Name("math"), "sqrt"), <<zzz>>),                 \* math.sqrt(zzz)
      Call(Call(Name("max"), <<I(1)>>), <<zzz>>),                     \* max(1)(zzz)
      Call(Subscript(vx, I(0)), <<I(1)>>) }                            \* x[0](1)

Others ==
    { IfExp(Constant(BoolV(TRUE)), I(1), Str),                        \* 1 if True else 's'
      IfExp(I(0), Str, I(2)),                                         \* 's' if 0 else 2
      IfExp(I(1), Str, I(2)),                                         \* 's' if 1 else 2
      IfExp(vx, I(1), zzz),                                            \* 1 if x else zzz
      IfExp(zzz, I(1), I(2)),                                         \* 1 if zzz else 2
      IfExp(I(0), List(<<I(1)>>), I(2)),                              \* [1] if 0 else 2
      Tuple(<<I(1), vx>>),                                             \* (1, x)
      Tuple(<<I(1), zzz, Str>>),                                      \* (1, zzz, 's')
      Tuple(<<>>),                                                    \* ()
      I(0), Constant(BoolV(FALSE)), Constant(FloatV(1, 2)),           \* 0, False, 0.5
      Str, Constant(NoneV),                                           \* 's', None
      Attribute(vx, "real"), Subscript(vx, I(0)), List(<<I(1), I(2)>>) }

ExprInputs ==
    {Module(<<Expr(ex)>>) : ex \in Comparisons \cup BoolOps \cup Arithmetic \cup Names
                                  \cup Calls \cup Others}

\* statements the sequences are built from
SeqStmts ==
    { Assign(<<Name("x")>>, I(1)),                             \* x = 1
      Assign(<<Name("y")>>, Name("x")),                        \* y = x
      Assign(<<Name("pi")>>, I(0)),                            \* pi = 0
      Assign(<<Name("y")>>, BinOp(I(1), "FloorDiv", I(0))),    \* y = 1 // 0
      Assign(<<Name("x"), Name("y")>>, I(2)),                  \* x = y = 2
      Assign(<<Tuple(<<Name("x"), Name("y")>>)>>,
             Tuple(<<I(1), I(2)>>)),                           \* x, y = 1, 2
      Expr(Name("pi")),                                        \* pi
      Expr(BinOp(Name("x"), "Add", I(1))),                     \* x + 1
      OtherStmt("Import") }                                    \* import os

SeqInputs == {Module(b) : b \in SeqsUpTo(SeqStmts, MaxStmts)}

CallInputs == {Unparsable} \cup ExprInputs \cup SeqInputs

\* assignments a session can have made
CallHistories ==
    { <<>>,
      <<EvBind("x", <<1>>, IntV(1))>>,                                    \* x = 1
      <<EvBind("x", <<1>>, IntV(0)), EvBind("y", <<2>>, IntV(2))>>,       \* x = 0; y = 2
      <<EvBind("pi", <<1>>, IntV(0)), EvBind("sqrt", <<1>>, IntV(5))>>,   \* pi = 0, sqrt = 5
      <<EvBind("x", <<1>>, IntV(4)), EvBind("open", <<1>>, IntV(1))>>,    \* x = 4, open = 1
      <<EvBind("x", <<1>>, TupleV(<<IntV(1), IntV(2)>>))>> }              \* x = (1, 2)

\* the vars the assignments of h leave
RECURSIVE VarsAfter(_)
VarsAfter(h) ==
    IF h = <<>> THEN EmptyVars
    ELSE Bind(VarsAfter(SubSeq(h, 1, Len(h) - 1)), h[Len(h)].name, h[Len(h)].val)

CallInit ==
    /\ history \in CallHistories
    /\ vars = VarsAfter(history)
    /\ _ALLOWED_CONSTS = InitConsts
    /\ _ALLOWED_FUNCS = InitFuncs
    /\ before = vars
    /\ request = [kind |-> "start", tree |-> Module(<<>>)]
    /\ result = NoResult
    /\ calls = 0

\* one input, evaluated once
CallEval == calls = 0 /\ EvalRequest(CallInputs)

CallSpec == CallInit /\ [][CallEval]_state

(***************************************************************************)
(* Reading the last request and its log                                    *)
(***************************************************************************)
IsEval == request.kind = "eval"

Body == request.tree.body

Log == result.log

RECURSIVE Descend(_, _)
Descend(node, path) ==
    IF path = <<>> THEN node ELSE Descend(node.kids[Head(path)], Tail(path))

\* the expression node of the last request at a path of its log
NodeAt(path) == Descend(Body[path[1]].value, Tail(path))

\* p is a proper prefix of q: q is a path below p
Below(p, q) == Len(p) < Len(q) /\ SubSeq(q, 1, Len(p)) = p

\* the log indices at which _eval_expr was entered on a node of class t
Entered(t) == {i \in DOMAIN Log : Log[i].k = "enter" /\ Log[i].name = t}

\* no node below the one at path was evaluated
NothingBelow(path) ==
    \A j \in DOMAIN Log : ~(Log[j].k = "enter" /\ Below(path, Log[j].path))

Whitelist ==
    {"abs", "round", "sqrt", "sin", "cos", "tan", "log", "log10", "exp", "pow",
     "max", "min"}

WhitelistedCallables ==
    {"builtins.abs", "builtins.round", "math.sqrt", "math.sin", "math.cos",
     "math.tan", "math.log", "math.log10", "math.exp", "builtins.pow",
     "builtins.max", "builtins.min"}

(***************************************************************************)
(* C1.  Only whitelisted functions are ever invoked.  When _eval_expr      *)
(* reaches a Call whose callee is a bare name outside the whitelist, the   *)
(* evaluation fails with "Function not allowed" naming it; when the callee *)
(* is not a bare name it fails; either way no argument of that call has    *)
(* been evaluated.  A binding of the callee's name in vars changes nothing.*)
(***************************************************************************)
C1_OnlyWhitelistedCalls ==
    IsEval =>
      /\ \A i \in DOMAIN Log :
            Log[i].k = "invoke" =>
               /\ Log[i].name \in WhitelistedCallables
               /\ NodeAt(Log[i].path).kids[1].t = "Name"
               /\ NodeAt(Log[i].path).kids[1].id \in Whitelist
      /\ \A i \in Entered("Call") :
            LET callee == NodeAt(Log[i].path).kids[1]
            IN  /\ callee.t = "Name" /\ callee.id \notin Whitelist =>
                     /\ ~result.ok
                     /\ result.msg = "Function not allowed: "
                     /\ result.arg = callee.id
                     /\ NothingBelow(Log[i].path)
                /\ callee.t # "Name" =>
                     /\ ~result.ok
                     /\ result.msg = "Only direct function calls are allowed."
                     /\ NothingBelow(Log[i].path)

\* a call of a non-whitelisted name that vars binds, with an argument, rejected
C1_Witness ==
    /\ IsEval
    /\ \E i \in Entered("Call") :
          LET call == NodeAt(Log[i].path)
          IN  /\ call.kids[1].t = "Name"
              /\ call.kids[1].id \notin Whitelist
              /\ call.kids[1].id \in DOMAIN before
              /\ Len(call.kids) > 1
              /\ ~result.ok /\ result.arg = call.kids[1].id

(***************************************************************************)
(* C10 as stated.  A table is read only for a name vars does not bind:     *)
(* neither the constant table (by a variable reference) nor the function   *)
(* table (by a call) is read for a name bound in vars.                     *)
(***************************************************************************)
C10_TablesOnlyWhenUnbound ==
    IsEval =>
      \A i \in DOMAIN Log :
         Log[i].k \in {"consts", "funcs"} => Log[i].name \notin DOMAIN before

(***************************************************************************)
(* C10 amended.  The constant table is read only for a name vars does not  *)
(* bind.  The function table is read for every call whose callee is a bare *)
(* name, whether vars binds that name or not.                              *)
(***************************************************************************)
C10_ConstsOnlyWhenUnbound ==
    IsEval =>
      /\ \A i \in DOMAIN Log :
            Log[i].k = "consts" => Log[i].name \notin DOMAIN before
      /\ \A i \in Entered("Call") :
            LET callee == NodeAt(Log[i].path).kids[1]
            IN  callee.t = "Name" =>
                  \E j \in DOMAIN Log :
                     /\ j > i
                     /\ Log[j] = Ev("funcs", callee.id, Log[i].path)

\* vars binds pi and sqrt; sqrt(..) went through the function table and
\* returned
C10_Witness ==
    /\ IsEval
    /\ "pi" \in DOMAIN before
    /\ result.ok
    /\ \E i \in DOMAIN Log :
          /\ Log[i].k = "invoke"
          /\ NodeAt(Log[i].path).kids[1].id \in DOMAIN before

(***************************************************************************)
(* Excluded constructs                                                     *)
(***************************************************************************)
RECURSIVE HasExcluded(_)
HasExcluded(node) ==
    \/ node.t = "Constant" /\ node.v.t \notin {"int", "float", "bool"}
    \/ node.t \in {"Attribute", "Subscript", "List"}
    \/ node.t = "Call" /\ (node.kids[1].t # "Name" \/ node.kids[1].id \notin Whitelist)
    \/ \E i \in DOMAIN node.kids : HasExcluded(node.kids[i])

(***************************************************************************)
(* C6 as stated.  An input whose tree contains an excluded construct       *)
(* anywhere (a literal that is no number or boolean, an attribute access,  *)
(* a subscript, a list, a call of a non-whitelisted or non-bare-name       *)
(* callee) never returns a value.                                          *)
(***************************************************************************)
C6_ExcludedNeverReturns ==
    /\ IsEval
    /\ \E j \in DOMAIN Body : Body[j].t \in {"Expr", "Assign"} /\ HasExcluded(Body[j].value)
    => ~result.ok

(***************************************************************************)
(* The operands of the root node of a single-expression request, each      *)
(* evaluated on its own in the vars the request found.                     *)
(***************************************************************************)
Root == Body[1].value

Operand(i) == _eval_expr(Root.kids[i], before, <<1, i>>)

\* the operands of the root that were evaluated, in the order of the log
OperandsEntered ==
    LET evs == SelectSeq(Log, LAMBDA ev : ev.k = "enter" /\ Len(ev.path) = 2)
    IN  [i \in DOMAIN evs |-> evs[i].path[2]]

\* operands 1..m were evaluated, once each, left to right, and no other
EvaluatedUpTo(m) == OperandsEntered = [i \in 1..m |-> i]

(***************************************************************************)
(* The links of a comparison                                               *)
(***************************************************************************)
IsComparison ==
    /\ IsEval /\ ~request.tree.syntaxError /\ Len(Body) = 1 /\ Body[1].t = "Expr"
    /\ Root.t = "Compare"
    /\ \A i \in DOMAIN Root.ops : Root.ops[i] \in {"Eq", "NotEq", "Lt", "LtE", "Gt", "GtE"}

Links == DOMAIN Root.ops

Link(i) == CmpApply(Root.ops[i], Operand(i).val, Operand(i + 1).val)

LinkDecided(i) == Operand(i).ok /\ Operand(i + 1).ok /\ Link(i).ok

LinkHolds(i) == LinkDecided(i) /\ Truthy(Link(i).val)

LinkFails(i) == LinkDecided(i) /\ ~Truthy(Link(i).val)

FirstFailingLink == {f \in Links : LinkFails(f) /\ \A j \in 1..(f - 1) : LinkHolds(j)}

(***************************************************************************)
(* C7.  In e0 op1 e1 ... opn en the operands are evaluated at most once,   *)
(* left to right; the result is True exactly when every link holds; at     *)
(* the first link that fails the result is False and no later operand is   *)
(* evaluated, so a later operand that would fail causes no failure.        *)
(***************************************************************************)
C7_ChainedComparison ==
    IsComparison =>
      /\ \E m \in 1..Len(Root.kids) : EvaluatedUpTo(m)
      /\ (\A i \in Links : LinkHolds(i)) <=> (result.ok /\ result.val = BoolV(TRUE))
      /\ \A f \in FirstFailingLink :
            /\ result.ok /\ result.val = BoolV(FALSE)
            /\ EvaluatedUpTo(f + 1)

\* a chain whose first link fails and whose last operand would fail
C7_Witness ==
    /\ IsComparison
    /\ Len(Root.ops) >= 2
    /\ 1 \in FirstFailingLink
    /\ ~Operand(Len(Root.kids)).ok
    /\ result.ok /\ result.val = BoolV(FALSE)

(***************************************************************************)
(* The operands of and / or                                                *)
(***************************************************************************)
IsBoolOp ==
    /\ IsEval /\ ~request.tree.syntaxError /\ Len(Body) = 1 /\ Body[1].t = "Expr"
    /\ Root.t = "BoolOp" /\ Root.op \in {"And", "Or"}

\* operand i ends the evaluation: falsy under and, truthy under or
Decides(i) == Operand(i).ok /\ (Truthy(Operand(i).val) <=> Root.op = "Or")

Passes(i) == Operand(i).ok /\ ~Decides(i)

FirstDeciding ==
    {f \in DOMAIN Root.kids : Decides(f) /\ \A j \in 1..(f - 1) : Passes(j)}

(***************************************************************************)
(* C9.  `and` evaluates left to right and is False at the first falsy      *)
(* operand, without evaluating the rest, and True when all are truthy;     *)
(* `or` is True at the first truthy operand, without evaluating the rest,  *)
(* and False when none is.  The result is True or False itself, never the  *)
(* operand's value.                                                        *)
(***************************************************************************)
C9_BoolOpShortCircuit ==
    IsBoolOp =>
      /\ \E m \in 1..Len(Root.kids) : EvaluatedUpTo(m)
      /\ \A f \in FirstDeciding :
            /\ result.ok /\ result.val = BoolV(Root.op = "Or")
            /\ EvaluatedUpTo(f)
      /\ (\A i \in DOMAIN Root.kids : Passes(i)) =>
            /\ result.ok /\ result.val = BoolV(Root.op = "And")
            /\ EvaluatedUpTo(Len(Root.kids))
      /\ result.ok => result.val \in {BoolV(TRUE), BoolV(FALSE)}

\* 5 or zzz: True, not 5, and no unknown-name failure
C9_Witness ==
    /\ IsBoolOp
    /\ Root.op = "Or"
    /\ Operand(1).ok /\ Operand(1).val = IntV(5)
    /\ ~Operand(2).ok
    /\ result.ok /\ result.val = BoolV(TRUE)

(***************************************************************************)
(* Statement-by-statement reading of the last request                      *)
(***************************************************************************)
\* an expression statement or an assignment to one name
InGrammar(st) ==
    \/ st.t = "Expr"
    \/ st.t = "Assign" /\ Len(st.targets) = 1 /\ st.targets[1].t = "Name"

ValueOf(e, env) == _eval_expr(e, env, <<>>)

\* vars as statements 1..k-1 leave them, one after the other, from the vars
\* the request found
RECURSIVE EnvBefore(_)
EnvBefore(k) ==
    IF k = 1 THEN before
    ELSE LET env == EnvBefore(k - 1)
             st  == Body[k - 1]
         IN  IF st.t = "Assign"
             THEN (st.targets[1].id :> ValueOf(st.value, env).val) @@ env
             ELSE env

\* statement k is in the grammar and its expression evaluates
Succeeds(k) == InGrammar(Body[k]) /\ ValueOf(Body[k].value, EnvBefore(k)).ok

(***************************************************************************)
(* C2.  An input of expression statements and single-name assignments that *)
(* evaluates without failure returns the value of its last statement, each *)
(* assignment binding its name to the value of its expression in the vars  *)
(* as they stood just before it; an input with no statement returns None,  *)
(* which is not the value 0.                                               *)
(***************************************************************************)
C2_LastStatementValue ==
    /\ IsEval /\ ~request.tree.syntaxError /\ result.ok
    /\ \A j \in DOMAIN Body : InGrammar(Body[j])
    => IF Len(Body) = 0
       THEN result.val.t = "None" /\ result.val # IntV(0) /\ vars = before
       ELSE /\ result.val = ValueOf(Body[Len(Body)].value, EnvBefore(Len(Body))).val
            /\ vars = EnvBefore(Len(Body) + 1)

\* x = 1; x + 1 returned 2 and left x bound to 1
C2_Witness ==
    /\ IsEval
    /\ Body = <<Assign(<<Name("x")>>, I(1)), Expr(BinOp(Name("x"), "Add", I(1)))>>
    /\ "x" \notin DOMAIN before
    /\ result.ok /\ result.val = IntV(2)
    /\ vars["x"] = IntV(1)

(***************************************************************************)
(* The assignments a reference comes after                                 *)
(***************************************************************************)
\* the history as the last request found it
HistoryBefore == SubSeq(history, 1, Len(history) - Len(Binds(Log)))

RECURSIVE SinceClear(_)
SinceClear(h) ==
    IF h = <<>> THEN <<>>
    ELSE IF h[Len(h)].k = "clear" THEN <<>>
    ELSE Append(SinceClear(SubSeq(h, 1, Len(h) - 1)), h[Len(h)])

\* the assignments to n that a reference in statement j comes after
AssignedTo(n, j) ==
    SelectSeq(SinceClear(HistoryBefore), LAMBDA ev : ev.name = n)
    \o SelectSeq(Binds(Log), LAMBDA ev : ev.name = n /\ ev.path[1] < j)

\* the statements whose expression is a bare name and was evaluated
NameStatements ==
    {j \in DOMAIN Body :
        /\ InGrammar(Body[j]) /\ Body[j].value.t = "Name"
        /\ \E i \in DOMAIN Log : Log[i] = Ev("enter", "Name", <<j>>)}

(***************************************************************************)
(* C3.  A reference to the name n yields the value most recently assigned  *)
(* to n in the session since the last :clear (by an earlier call or an     *)
(* earlier statement of this call), also when n is pi, e or tau; otherwise *)
(* the constant if n is pi, e or tau; otherwise a failure naming n.        *)
(***************************************************************************)
C3_NameLookup ==
    IsEval =>
      \A j \in NameStatements :
         LET n == Body[j].value.id
             a == AssignedTo(n, j)
             yields(v) ==
                /\ j = Len(Body) => result.ok /\ result.val = v
                /\ Body[j].t = "Assign" =>
                      \E i \in DOMAIN Log : Log[i] = EvBind(Body[j].targets[1].id, <<j>>, v)
         IN  IF a # <<>> THEN yields(a[Len(a)].val)
             ELSE IF n \in {"pi", "e", "tau"} THEN yields(InitConsts[n])
             ELSE /\ ~result.ok
                  /\ result.msg = "Unknown variable or constant: "
                  /\ result.arg = n

\* pi was assigned, then the session was cleared, and pi is the constant again
C3_Witness ==
    /\ IsEval
    /\ Body = <<Expr(Name("pi"))>>
    /\ \E i \in DOMAIN history :
          /\ history[i].k = "bind" /\ history[i].name = "pi"
          /\ history[Len(history)].k = "clear"
    /\ result.ok /\ result.val = InitConsts["pi"]

(***************************************************************************)
(* The statement that fails                                                *)
(***************************************************************************)
\* the statement whose evaluation fails, its predecessors having succeeded
FailingStatement ==
    {k \in DOMAIN Body :
        /\ \A j \in 1..(k - 1) : Succeeds(j)
        /\ InGrammar(Body[k]) /\ ~Succeeds(k)}

(***************************************************************************)
(* C4.  When statement k fails in evaluation, vars after the call are the  *)
(* vars statements 1..k-1 produced: earlier assignments stay applied, the  *)
(* target of a failing assignment keeps its binding or stays unbound, and  *)
(* no statement after k is evaluated or applied.                           *)
(***************************************************************************)
C4_FailureKeepsPrefix ==
    IsEval /\ ~request.tree.syntaxError =>
      \A k \in FailingStatement :
         /\ ~result.ok
         /\ result.exc = ValueOf(Body[k].value, EnvBefore(k)).exc
         /\ vars = EnvBefore(k)
         /\ \A i \in DOMAIN Log : Log[i].path[1] <= k

\* pi = 0; y = 1 // 0 with y bound: pi is bound now, y is as it was
C4_Witness ==
    /\ IsEval
    /\ Len(Body) = 2 /\ 2 \in FailingStatement
    /\ Body[1].t = "Assign" /\ Body[1].targets[1].id \notin DOMAIN before
    /\ Body[2].t = "Assign" /\ Body[2].targets[1].id \in DOMAIN before
    /\ result.exc = "ZeroDivisionError"
    /\ Body[1].targets[1].id \in DOMAIN vars
    /\ vars[Body[2].targets[1].id] = before[Body[2].targets[1].id]

(***************************************************************************)
(* Rejections of a statement outside the grammar                           *)
(***************************************************************************)
StructuralRejection ==
    /\ IsEval /\ ~result.ok
    /\ result.msg \in {"Only single-target assignment is allowed.",
                       "Can only assign to variable names.",
                       "Only expressions and simple assignments are allowed."}

(***************************************************************************)
(* C5 as stated.  An input rejected because one of its statements is       *)
(* neither an expression statement nor a single-name assignment is         *)
(* rejected before any of its statements is evaluated, so vars after the   *)
(* call are the vars the request found, wherever the statement stands.     *)
(***************************************************************************)
C5_RejectionBeforeEvaluation ==
    StructuralRejection => vars = before

(***************************************************************************)
(* The assignments a request carried out                                   *)
(***************************************************************************)
\* the targets of the assignments of the last request that were carried out
AssignedTargets ==
    {Body[j].targets[1].id :
        j \in {k \in DOMAIN Body :
                 Body[k].t = "Assign" /\ \A i \in 1..k : Succeeds(i)}}

NoAssignment == \A j \in DOMAIN Body : Body[j].t # "Assign"

(***************************************************************************)
(* C8.  An input with no assignment statement leaves vars unchanged,       *)
(* whether it returns or fails.  vars change only by a successfully        *)
(* evaluated assignment, and then only at its target, or by :clear, which  *)
(* empties them.  The constant and function tables never change.           *)
(***************************************************************************)
C8_Frame ==
    [][ /\ _ALLOWED_CONSTS' = InitConsts /\ _ALLOWED_CONSTS' = _ALLOWED_CONSTS
        /\ _ALLOWED_FUNCS' = InitFuncs /\ _ALLOWED_FUNCS' = _ALLOWED_FUNCS
        /\ request'.kind \in {"eval", "clear"}
        /\ request'.kind = "clear" => vars' = EmptyVars
        /\ request'.kind = "eval" =>
              /\ NoAssignment' => vars' = vars
              /\ \A n \in DOMAIN vars \cup DOMAIN vars' :
                    n \in AssignedTargets' \/
                    (n \in DOMAIN vars /\ n \in DOMAIN vars' /\ vars'[n] = vars[n])
      ]_state

\* an input with no assignment failed and left non-empty vars as they were
C8_Witness ==
    /\ IsEval /\ ~request.tree.syntaxError
    /\ Body # <<>> /\ NoAssignment
    /\ ~result.ok
    /\ before # EmptyVars /\ vars = before

====
